---- MODULE Spec2Model ----
(***************************************************************************)
(* Keyword extraction with deterministic fallback                          *)
(* (modules/mail_processor/keyword_extractor_service.py) and the           *)
(* content-hash deduplication gate                                         *)
(* (modules/mail_process/service/db_service.py).                           *)
(*                                                                         *)
(* A text is a sequence of characters; a character is a one-character      *)
(* string, except the Hangul syllables, which are written with their       *)
(* romanised names because the module is ASCII.                            *)
(***************************************************************************)
EXTENDS Integers, Sequences, FiniteSets, TLC

(***************************************************************************)
(* Character classes of the regular expressions.                           *)
(***************************************************************************)
Lower == {"a", "b", "c", "d", "e", "f", "g", "h", "i", "j", "k", "l", "m",
          "n", "o", "p", "q", "r", "s", "t", "u", "v", "w", "x", "y", "z"}
Upper == {"A", "B", "C", "D", "E", "F", "G", "H", "I", "J", "K", "L", "M",
          "N", "O", "P", "Q", "R", "S", "T", "U", "V", "W", "X", "Y", "Z"}
Digit == {"0", "1", "2", "3", "4", "5", "6", "7", "8", "9"}
\* [a-zA-Z]
Letter == Lower \cup Upper
\* [가-힣]: seon bak an jeon jeom geom stand for the syllables of
\* "선박", "안전", "점검".
Hangul == {"seon", "bak", "an", "jeon", "jeom", "geom"}
\* \s
Whitespace == {" ", "\t", "\n", "\r"}
\* . , ! ? ( ) : ; - : the punctuation step 7 of _clean_text keeps
KeptPunct == {".", ",", "!", "?", "(", ")", ":", ";", "-"}
\* every other character the model's texts use
OtherChar == {"<", ">", "@", "=", "/", "_", "%", "+", "#", "*", "&"}
AnyChar == Letter \cup Digit \cup Hangul \cup Whitespace \cup KeptPunct
             \cup OtherChar
\* \w (Python 3 str patterns: Unicode letters, digits and the underscore)
WordChar == Letter \cup Digit \cup Hangul \cup {"_"}
\* [^>]
NotGt == AnyChar \ {">"}
\* [^\s]
NonSpace == AnyChar \ Whitespace
\* [a-zA-Z0-9._%+-]
EmailLocalChar == Letter \cup Digit \cup {".", "_", "%", "+", "-"}
\* [a-zA-Z0-9.-]
EmailDomainChar == Letter \cup Digit \cup {".", "-"}
\* [-=]
DividerChar == {"-", "="}
\* [^\w\s가-힣.,!?():;-] is the complement of this set
KeptChar == WordChar \cup Whitespace \cup Hangul \cup KeptPunct

(***************************************************************************)
(* Helpers of the regular-expression engine: a greedy run of a class, and  *)
(* a literal at a position.                                                *)
(***************************************************************************)
RECURSIVE RunEnd(_, _, _)
\* the index just past the longest run of characters of cls that starts at i
RunEnd(s, i, cls) ==
  IF i <= Len(s) /\ s[i] \in cls THEN RunEnd(s, i + 1, cls) ELSE i

\* the literal lit stands in s at index i
LitAt(s, i, lit) ==
  /\ i >= 1
  /\ i + Len(lit) - 1 <= Len(s)
  /\ \A k \in 1..Len(lit) : s[i + k - 1] = lit[k]

\* s from index i on
Drop(s, i) == IF i > Len(s) THEN <<>> ELSE SubSeq(s, i, Len(s))

(***************************************************************************)
(* The patterns of _clean_text.  MatchEnd(pat, s, i) is the index just     *)
(* past the match of pat that starts at index i of s, and 0 when pat does  *)
(* not match at i: what re's backtracking matcher finds at that position.  *)
(***************************************************************************)
\* <[^>]+>
TagEnd(s, i) ==
  IF s[i] # "<" THEN 0
  ELSE LET e == RunEnd(s, i + 1, NotGt)
       IN  IF e > i + 1 /\ e <= Len(s) THEN e + 1 ELSE 0

\* <[^>]+@[^>]+>
AddrTagEnd(s, i) ==
  IF s[i] # "<" THEN 0
  ELSE LET e == RunEnd(s, i + 1, NotGt)
       IN  IF e <= Len(s) /\ \E p \in (i + 2)..(e - 2) : s[p] = "@"
           THEN e + 1 ELSE 0

\* [a-zA-Z0-9._%+-]+@[a-zA-Z0-9.-]+\.[a-zA-Z]{2,}
\* The local part must run up to the "@"; the greedy domain part gives way
\* to the last "." that at least two letters follow.
EmailEnd(s, i) ==
  LET a == RunEnd(s, i, EmailLocalChar)
  IN  IF ~(a > i /\ a <= Len(s) /\ s[a] = "@") THEN 0
      ELSE LET d == RunEnd(s, a + 1, EmailDomainChar)
               dots == {p \in (a + 2)..(d - 1) :
                          s[p] = "." /\ RunEnd(s, p + 1, Letter) >= p + 3}
           IN  IF dots = {} THEN 0
               ELSE LET p == CHOOSE q \in dots : \A r \in dots : r <= q
                    IN  RunEnd(s, p + 1, Letter)

\* https?://[^\s]+
HttpEnd(s, i) ==
  IF ~LitAt(s, i, <<"h", "t", "t", "p">>) THEN 0
  ELSE LET k == IF LitAt(s, i + 4, <<"s">>) THEN i + 5 ELSE i + 4
           e == RunEnd(s, k + 3, NonSpace)
       IN  IF LitAt(s, k, <<":", "/", "/">>) /\ e > k + 3 THEN e ELSE 0

\* www\.[^\s]+
WwwEnd(s, i) ==
  LET e == RunEnd(s, i + 4, NonSpace)
  IN  IF LitAt(s, i, <<"w", "w", "w", ".">>) /\ e > i + 4 THEN e ELSE 0

\* \n+
NewlinesEnd(s, i) ==
  IF s[i] = "\n" THEN RunEnd(s, i, {"\n"}) ELSE 0

\* [-=]{3,}
DividerEnd(s, i) ==
  LET e == RunEnd(s, i, DividerChar) IN IF e - i >= 3 THEN e ELSE 0

\* \s+
SpacesEnd(s, i) ==
  IF s[i] \in Whitespace THEN RunEnd(s, i, Whitespace) ELSE 0

\* \b[a-zA-Z]\b
SingleLetterEnd(s, i) ==
  IF /\ s[i] \in Letter
     /\ (i = 1 \/ s[i - 1] \notin WordChar)
     /\ (i = Len(s) \/ s[i + 1] \notin WordChar)
  THEN i + 1 ELSE 0

MatchEnd(pat, s, i) ==
  CASE pat = "tag" -> TagEnd(s, i)
    [] pat = "addrtag" -> AddrTagEnd(s, i)
    [] pat = "email" -> EmailEnd(s, i)
    [] pat = "http" -> HttpEnd(s, i)
    [] pat = "www" -> WwwEnd(s, i)
    [] pat = "newlines" -> NewlinesEnd(s, i)
    [] pat = "divider" -> DividerEnd(s, i)
    [] pat = "spaces" -> SpacesEnd(s, i)
    [] pat = "single" -> SingleLetterEnd(s, i)

RECURSIVE SubFrom(_, _, _, _)
\* re.sub(pat, rep, s) from index i on: the leftmost match is replaced and
\* the scan goes on behind it
SubFrom(pat, rep, s, i) ==
  IF i > Len(s) THEN <<>>
  ELSE LET e == MatchEnd(pat, s, i)
       IN  IF e > 0 THEN rep \o SubFrom(pat, rep, s, e)
           ELSE <<s[i]>> \o SubFrom(pat, rep, s, i + 1)

ReSub(pat, rep, s) == SubFrom(pat, rep, s, 1)

RECURSIVE ReplaceCRLF(_)
\* str.replace("\r\n", "\n")
ReplaceCRLF(s) ==
  IF s = <<>> THEN <<>>
  ELSE IF LitAt(s, 1, <<"\r", "\n">>)
       THEN <<"\n">> \o ReplaceCRLF(Drop(s, 3))
       ELSE <<s[1]>> \o ReplaceCRLF(Tail(s))

\* str.replace(from, to) for single characters
ReplaceChar(s, from, to) ==
  [i \in 1..Len(s) |-> IF s[i] = from THEN to ELSE s[i]]

\* re.sub(r"[^\w\s가-힣.,!?():;-]", " ", s)
BlankSpecials(s) ==
  [i \in 1..Len(s) |-> IF s[i] \in KeptChar THEN s[i] ELSE " "]

RECURSIVE LStrip(_)
LStrip(s) ==
  IF s # <<>> /\ s[1] \in Whitespace THEN LStrip(Tail(s)) ELSE s

RECURSIVE RStrip(_)
RStrip(s) ==
  IF s # <<>> /\ s[Len(s)] \in Whitespace
  THEN RStrip(SubSeq(s, 1, Len(s) - 1)) ELSE s

\* str.strip()
Strip(s) == RStrip(LStrip(s))

(***************************************************************************)
(* _clean_text: the eleven steps, in the order of the code.  None (and the *)
(* empty string) give the empty string.                                    *)
(***************************************************************************)
None == <<"None">>

CleanStep1(s) == ReplaceChar(ReplaceCRLF(s), "\r", "\n")
CleanStep2(s) == ReSub("tag", <<>>, s)
CleanStep3(s) == ReSub("email", <<" ">>, ReSub("addrtag", <<" ">>, s))
CleanStep4(s) == ReSub("www", <<" ">>, ReSub("http", <<" ">>, s))
CleanStep5(s) == ReSub("newlines", <<" ">>, s)
CleanStep6(s) == ReplaceChar(s, "\t", " ")
CleanStep7(s) == BlankSpecials(s)
CleanStep8(s) == ReSub("divider", <<" ">>, s)
CleanStep9(s) == ReSub("spaces", <<" ">>, s)
CleanStep10(s) == ReSub("single", <<>>, s)
CleanStep11(s) == Strip(s)

CleanText(text) ==
  IF text = None \/ text = <<>> THEN <<>>
  ELSE CleanStep11(CleanStep10(CleanStep9(CleanStep8(CleanStep7(CleanStep6(
         CleanStep5(CleanStep4(CleanStep3(CleanStep2(CleanStep1(text)))))))))))

(***************************************************************************)
(* _fallback_keyword_extraction: three re.findall passes over the cleaned  *)
(* text, pooled, counted, and the most common ones taken.                  *)
(***************************************************************************)
\* [가-힣]{2,}
HangulWordEnd(s, i) ==
  LET e == RunEnd(s, i, Hangul) IN IF e - i >= 2 THEN e ELSE 0

\* [A-Za-z]{3,}
EnglishWordEnd(s, i) ==
  LET e == RunEnd(s, i, Letter) IN IF e - i >= 3 THEN e ELSE 0

\* [A-Z]{2,}\d+|[A-Z]+-\d+|\d{3,}: the first alternative that matches at i
IdentifierEnd(s, i) ==
  LET u == RunEnd(s, i, Upper)
      d1 == RunEnd(s, u, Digit)
      d2 == RunEnd(s, u + 1, Digit)
      d3 == RunEnd(s, i, Digit)
  IN  IF u - i >= 2 /\ d1 > u THEN d1
      ELSE IF u - i >= 1 /\ LitAt(s, u, <<"-">>) /\ d2 > u + 1 THEN d2
      ELSE IF d3 - i >= 3 THEN d3
      ELSE 0

FindEnd(pat, s, i) ==
  CASE pat = "hangul" -> HangulWordEnd(s, i)
    [] pat = "english" -> EnglishWordEnd(s, i)
    [] pat = "identifier" -> IdentifierEnd(s, i)

RECURSIVE FindFrom(_, _, _)
\* re.findall(pat, s) from index i on
FindFrom(pat, s, i) ==
  IF i > Len(s) THEN <<>>
  ELSE LET e == FindEnd(pat, s, i)
       IN  IF e > 0 THEN <<SubSeq(s, i, e - 1)>> \o FindFrom(pat, s, e)
           ELSE FindFrom(pat, s, i + 1)

ReFindAll(pat, s) == FindFrom(pat, s, 1)

\* the number of times w stands in the list ws
CountOf(ws, w) == Cardinality({i \in 1..Len(ws) : ws[i] = w})

RECURSIVE DistinctInOrder(_)
\* the keys of Counter(ws), in insertion order: each word at its first place
DistinctInOrder(ws) ==
  IF ws = <<>> THEN <<>>
  ELSE LET init == DistinctInOrder(SubSeq(ws, 1, Len(ws) - 1))
           w == ws[Len(ws)]
       IN  IF \E i \in 1..Len(init) : init[i] = w THEN init
           ELSE Append(init, w)

RECURSIVE TakeLargestLastOfTies(_, _, _)
\* of equal counts the key that comes last in keys
TakeLargestLastOfTies(keys, ws, n) ==
  IF n <= 0 \/ keys = <<>> THEN <<>>
  ELSE LET best == CHOOSE i \in 1..Len(keys) :
                     /\ \A j \in 1..Len(keys) :
                          CountOf(ws, keys[j]) <= CountOf(ws, keys[i])
                     /\ \A j \in (i + 1)..Len(keys) :
                          CountOf(ws, keys[j]) < CountOf(ws, keys[i])
           rest == [j \in 1..(Len(keys) - 1) |->
                      IF j < best THEN keys[j] ELSE keys[j + 1]]
       IN  <<keys[best]>> \o TakeLargestLastOfTies(rest, ws, n - 1)

RECURSIVE TakeLargest(_, _, _)
\* heapq.nlargest(n, keys, key = count): the highest count first, and of
\* equal counts the key that comes first in keys
TakeLargest(keys, ws, n) ==
  IF n <= 0 \/ keys = <<>> THEN <<>>
  ELSE LET best == CHOOSE i \in 1..Len(keys) :
                     /\ \A j \in 1..Len(keys) :
                          CountOf(ws, keys[j]) <= CountOf(ws, keys[i])
                     /\ \A j \in 1..(i - 1) :
                          CountOf(ws, keys[j]) < CountOf(ws, keys[i])
           rest == [j \in 1..(Len(keys) - 1) |->
                      IF j < best THEN keys[j] ELSE keys[j + 1]]
       IN  <<keys[best]>> \o TakeLargest(rest, ws, n - 1)

\* Counter(ws).most_common(n)
MostCommon(ws, n) == TakeLargest(DistinctInOrder(ws), ws, n)

\* all_words of lines 242-251: the matches of the three patterns, class
\* after class
AllWords(clean_text) ==
  ReFindAll("hangul", clean_text) \o ReFindAll("english", clean_text)
    \o ReFindAll("identifier", clean_text)

\* the fallback without the _clean_text call of line 239
FallbackOfTextAsGiven(text, max_keywords) ==
  MostCommon(AllWords(text), max_keywords)

FallbackKeywordExtraction(text, max_keywords) ==
  MostCommon(AllWords(CleanText(text)), max_keywords)

(***************************************************************************)
(* _parse_keywords: one of four formats, then the clean-up of every        *)
(* candidate.                                                              *)
(***************************************************************************)
RECURSIVE SplitOn(_, _)
\* str.split(sep) for a one-character separator: empty pieces are kept
SplitOn(s, sep) ==
  LET e == RunEnd(s, 1, AnyChar \ {sep})
  IN  IF e > Len(s) THEN <<s>>
      ELSE <<SubSeq(s, 1, e - 1)>> \o SplitOn(Drop(s, e + 1), sep)

RECURSIVE SplitWhitespace(_)
\* str.split(): pieces between runs of whitespace, none empty
SplitWhitespace(s) ==
  LET t == LStrip(s)
      e == RunEnd(t, 1, NonSpace)
  IN  IF t = <<>> THEN <<>>
      ELSE <<SubSeq(t, 1, e - 1)>> \o SplitWhitespace(Drop(t, e))

\* [x.strip() for x in pieces if x.strip()]
StripAll(pieces) ==
  LET stripped == [i \in 1..Len(pieces) |-> Strip(pieces[i])]
  IN  SelectSeq(stripped, LAMBDA x : x # <<>>)

\* re.search(r"\d+\.\s*", content)
HasNumbering(content) ==
  \E i \in 1..(Len(content) - 1) :
    content[i] \in Digit /\ content[i + 1] = "."

\* re.match(r"\d+\.\s*(.+)", line).group(1).strip() of a stripped line, and
\* the empty text when the line does not match
NumberedKeyword(line) ==
  LET d == RunEnd(line, 1, Digit)
      w == RunEnd(line, d + 1, Whitespace)
  IN  IF d > 1 /\ LitAt(line, d, <<".">>) /\ w <= Len(line)
      THEN Strip(Drop(line, w)) ELSE <<>>

NumberedKeywords(content) ==
  LET lines == StripAll(SplitOn(content, "\n"))
      found == [i \in 1..Len(lines) |-> NumberedKeyword(lines[i])]
  IN  SelectSeq(found, LAMBDA x : x # <<>>)

\* the trim without its second alternative: only the leading run goes
TrimLeadingNonWord(kw) == Drop(kw, RunEnd(kw, 1, AnyChar \ WordChar))

\* re.sub(r"^[^\w가-힣]+|[^\w가-힣]+$", "", kw)
TrimNonWord(kw) ==
  LET a == RunEnd(kw, 1, AnyChar \ WordChar)
      t == Drop(kw, a)
      last == {i \in 1..Len(t) : t[i] \in WordChar}
  IN  IF last = {} THEN <<>>
      ELSE SubSeq(t, 1, CHOOSE i \in last : \A j \in last : j <= i)

MinKeywordLen == 2

\* the clean-up without its minimum length
CleanKeywordsOfAnyLength(keywords) ==
  LET trimmed == [i \in 1..Len(keywords) |-> TrimNonWord(keywords[i])]
  IN  SelectSeq(trimmed, LAMBDA kw : kw # <<>>)

\* lines 342-349: every candidate is trimmed and kept when two characters or
\* more are left
CleanKeywords(keywords) ==
  LET trimmed == [i \in 1..Len(keywords) |-> TrimNonWord(keywords[i])]
  IN  SelectSeq(trimmed, LAMBDA kw : Len(kw) >= MinKeywordLen)

ParseFormat(content) ==
  IF HasNumbering(content) THEN "numbered"
  ELSE IF \E i \in 1..Len(content) : content[i] = "," THEN "comma"
  ELSE IF \E i \in 1..Len(content) : content[i] = "\n" THEN "newline"
  ELSE "whitespace"

ParseKeywords(content) ==
  LET fmt == ParseFormat(content)
      keywords ==
        CASE fmt = "numbered" -> NumberedKeywords(content)
          [] fmt = "comma" -> StripAll(SplitOn(content, ","))
          [] fmt = "newline" -> StripAll(SplitOn(content, "\n"))
          [] fmt = "whitespace" -> SplitWhitespace(content)
  IN  CleanKeywords(keywords)

(***************************************************************************)
(* Inputs of the keyword extractor: mail bodies, the caller's maximum, the *)
(* configured API key and what the remote endpoint may answer.             *)
(***************************************************************************)
\* "hi there": shorter than ten characters
TextShort == <<"h", "i", " ", "t", "h", "e", "r", "e">>
\* "<b>abc</b>   def": long as sent, "abc def" once cleaned
TextMarkup == <<"<", "b", ">", "a", "b", "c", "<", "/", "b", ">", " ", " ", " ", "d", "e", "f">>
\* "abcdefghi": nine characters
TextNine == <<"a", "b", "c", "d", "e", "f", "g", "h", "i">>
\* "abcdefghij": ten characters
TextTen == <<"a", "b", "c", "d", "e", "f", "g", "h", "i", "j">>
\* "ship safety ship port"
TextShip == <<"s", "h", "i", "p", " ", "s", "a", "f", "e", "t", "y", " ", "s", "h", "i", "p", " ", "p", "o", "r", "t">>
\* "REQ-123 선박 안전 선박 EA004"
TextMixed == <<"R", "E", "Q", "-", "1", "2", "3", " ", "seon", "bak", " ", "an", "jeon", " ", "seon", "bak", " ", "E", "A", "0", "0", "4">>
\* "port x ship-a--b ship": cleaning it twice differs from cleaning it once
TextDivider == <<"p", "o", "r", "t", " ", "x", " ", "s", "h", "i", "p", "-", "a", "-", "-", "b", " ", "s", "h", "i", "p">>

Texts == {None, <<>>, TextShort, TextMarkup, TextNine, TextTen, TextShip,
          TextMixed, TextDivider}

\* a body that is no str (bytes, a number): every str method on it raises
NonStr == <<"NonStr">>

\* the largest max_keywords a caller of the model asks for
MaxKeywordsBound == 3
MaxKeywordsValues == 0..MaxKeywordsBound

\* openrouter_api_key of the configuration: absent (None) or set
NoKey == "none"
ApiKeys == {NoKey, "sk-key"}

\* choices[0].message.content of an answer
\* "ship, safety"
ContentComma == <<"s", "h", "i", "p", ",", " ", "s", "a", "f", "e", "t", "y">>
\* "1. ship\n2. safety\n3. port\n4. crew"
ContentNumbered == <<"1", ".", " ", "s", "h", "i", "p", "\n", "2", ".", " ", "s", "a", "f", "e", "t", "y", "\n", "3", ".", " ", "p", "o", "r", "t", "\n", "4", ".", " ", "c", "r", "e", "w">>
\* "a, ": no keyword survives the clean-up
ContentNoKeyword == <<"a", ",", " ">>
\* "  ": blank
ContentBlank == <<" ", " ">>

AnswerContents == {None, <<>>, ContentBlank, ContentNoKeyword,
                   ContentComma, ContentNumbered}

\* usage block of an answer: absent, or the three token counts
NoUsage == [present |-> FALSE, prompt_tokens |-> 0, completion_tokens |-> 0,
            total_tokens |-> 0]
SomeUsage == [present |-> TRUE, prompt_tokens |-> 40, completion_tokens |-> 8,
              total_tokens |-> 48]

\* the status _call_openrouter_api accepts (line 177)
OkStatus == 200

\* What the awaited POST may bring: an aiohttp.ClientError, any other
\* exception (the 30 s timeout raises asyncio.TimeoutError), or a response
\* with a status and a body; the body is no JSON, or a JSON object whose
\* choices are absent, empty, without message, without content, or hold a
\* content.
ChoiceShapes == {"absent", "empty", "no_message", "no_content", "content"}
Outcome(kind, status, json, usage, choices, content) ==
  [kind |-> kind, status |-> status, json |-> json, usage |-> usage,
   choices |-> choices, content |-> content]
NoOutcome == Outcome("none", 0, FALSE, NoUsage, "absent", None)
\* no request went out: a statement ahead of it raised
RaisedOutcome == Outcome("raised_before_request", 0, FALSE, NoUsage, "absent",
                         None)
RemoteOutcomes ==
  {Outcome("client_error", 0, FALSE, NoUsage, "absent", None),
   Outcome("timeout", 0, FALSE, NoUsage, "absent", None),
   Outcome("response", 500, TRUE, NoUsage, "absent", None),
   Outcome("response", 500, TRUE, SomeUsage, "content", ContentComma),
   Outcome("response", OkStatus, FALSE, NoUsage, "absent", None)}
  \cup {Outcome("response", OkStatus, TRUE, u, c, None) :
          u \in {NoUsage, SomeUsage}, c \in ChoiceShapes \ {"content"}}
  \cup {Outcome("response", OkStatus, TRUE, u, "content", c) :
          u \in {NoUsage, SomeUsage}, c \in AnswerContents}

(***************************************************************************)
(* _call_openrouter_api from the answer on (lines 169-234).                *)
(***************************************************************************)
\* a token_info dictionary: empty |-> TRUE is {}, the dictionary without
\* any of the four keys; cost_usd counts millionths of a dollar
TokenInfo(empty, prompt_tokens, completion_tokens, total_tokens, cost_usd) ==
  [empty |-> empty, prompt_tokens |-> prompt_tokens,
   completion_tokens |-> completion_tokens, total_tokens |-> total_tokens,
   cost_usd |-> cost_usd]

\* token_info as initialised at lines 146-151
ZeroTokenInfo == TokenInfo(FALSE, 0, 0, 0, 0)
\* token_info = {} of the results that carry no usage
EmptyTokenInfo == TokenInfo(TRUE, 0, 0, 0, 0)

\* $0.0015 and $0.002 for 1000 tokens (lines 205-206), in tenths of a
\* millionth of a dollar for one token
InputCost == 15
OutputCost == 20

\* round(input_cost + output_cost, 6) (line 207), in millionths of a dollar;
\* exact for an even prompt_tokens, where no tie is rounded
CostUsd(prompt_tokens, completion_tokens) ==
  (InputCost * prompt_tokens + OutputCost * completion_tokens + 5) \div 10

\* lines 194-207
TokenInfoOf(usage) ==
  IF usage.present
  THEN TokenInfo(FALSE, usage.prompt_tokens, usage.completion_tokens,
                 usage.total_tokens,
                 CostUsd(usage.prompt_tokens, usage.completion_tokens))
  ELSE ZeroTokenInfo

\* _clean_text, _fallback_keyword_extraction and _parse_keywords on the
\* model's bodies and answers, worked out once: Cleaned, Fallback and Parsed
\* are the three functions on the inputs the model draws
CleanedTexts == [text \in Texts |-> CleanText(text)]
Cleaned(text) == CleanedTexts[text]

FallbackResults ==
  [text \in Texts \cup {CleanedTexts[t] : t \in Texts} |->
     [k \in MaxKeywordsValues |-> FallbackKeywordExtraction(text, k)]]
Fallback(text, max_keywords) == FallbackResults[text][max_keywords]

ParsedContents ==
  [content \in AnswerContents \ {None} |-> ParseKeywords(content)]
Parsed(content) == ParsedContents[content]

\* the slice left out: every parsed keyword is handed on
SliceToAll(keywords, n) == keywords

\* keywords[:n]
SliceTo(keywords, n) ==
  IF n >= 0
  THEN SubSeq(keywords, 1, IF n < Len(keywords) THEN n ELSE Len(keywords))
  ELSE SubSeq(keywords, 1, IF Len(keywords) + n > 0 THEN Len(keywords) + n
                           ELSE 0)

\* content and content.strip()
ContentPresent(content) == content # None /\ Strip(content) # <<>>

\* the answer read without the status test of line 177
ApiKeywordsAnyStatus(outcome, max_keywords) ==
  IF /\ outcome.kind = "response"
     /\ outcome.json
     /\ outcome.choices = "content"
     /\ ContentPresent(outcome.content)
  THEN SliceTo(ParseKeywords(outcome.content), max_keywords)
  ELSE <<>>

\* the keywords _call_openrouter_api returns for an answer
ApiKeywords(outcome, max_keywords) ==
  IF /\ outcome.kind = "response"
     /\ outcome.status = OkStatus
     /\ outcome.json
     /\ outcome.choices = "content"
     /\ ContentPresent(outcome.content)
  THEN SliceTo(Parsed(outcome.content), max_keywords)
  ELSE <<>>

\* the token_info _call_openrouter_api returns for an answer
ApiTokenInfo(outcome) ==
  IF outcome.kind = "response" /\ outcome.status = OkStatus /\ outcome.json
  THEN TokenInfoOf(outcome.usage)
  ELSE ZeroTokenInfo

(***************************************************************************)
(* extract_keywords (lines 47-101).                                        *)
(***************************************************************************)
MinTextLen == 10

\* the length test off by one
TooShortOffByOne(clean_text) == Len(Strip(clean_text)) < MinTextLen - 1

\* len(clean_text.strip()) < 10
TooShort(clean_text) == Len(Strip(clean_text)) < MinTextLen

\* _clean_text raises on a body that is neither a str nor None
CleanTextRaises(text) == text = NonStr

Response(keywords, method, model, token_info) ==
  [keywords |-> keywords, method |-> method, model |-> model,
   token_info |-> token_info]
NoResponse == Response(<<>>, "none", "none", EmptyTokenInfo)

\* openrouter_model of the configuration (line 24)
Model == "openai/gpt-3.5-turbo"

\* lines 59-65
EmptyTextResponse == Response(<<>>, "empty_text", Model, EmptyTokenInfo)

\* the remote result tagged like a rule-based one
RemoteResponseAsFallback(keywords, token_info) ==
  Response(keywords, "fallback", Model, token_info)

\* lines 74-80
RemoteResponse(keywords, token_info) ==
  Response(keywords, "openrouter", Model, token_info)

\* lines 83-90
FallbackResponse(clean_text, max_keywords) ==
  Response(Fallback(clean_text, max_keywords), "fallback",
           "rule_based", EmptyTokenInfo)

\* lines 92-101, when the fallback on the raw text does not raise
FallbackErrorResponse(text, max_keywords) ==
  Response(Fallback(text, max_keywords), "fallback_error",
           "rule_based", EmptyTokenInfo)

\* the test of line 72 left out: whatever the call brought is returned
UseRemoteAlways(keywords) == TRUE

\* if keywords: (line 72)
UseRemote(keywords) == keywords # <<>>

\* the fallback result handed the token_info of the failed call
AfterApiResponseKeepsTokens(clean_text, max_keywords, keywords, token_info) ==
  IF UseRemote(keywords) THEN RemoteResponse(keywords, token_info)
  ELSE [FallbackResponse(clean_text, max_keywords)
          EXCEPT !.token_info = token_info]

\* lines 72-90: what extract_keywords returns once _call_openrouter_api has
\* returned (keywords, token_info)
AfterApiResponse(clean_text, max_keywords, keywords, token_info) ==
  IF UseRemote(keywords) THEN RemoteResponse(keywords, token_info)
  ELSE FallbackResponse(clean_text, max_keywords)

(***************************************************************************)
(* The store behind db_manager: the mail_history and accounts tables and   *)
(* whether mail_history has its content_hash column.  A row of             *)
(* mail_history keeps the columns the dedup gate reads; received_time,     *)
(* subject, sender and processed_at are written once and never read here.  *)
(***************************************************************************)
\* the place of every character in the encoding of a content
CharTable ==
  <<"a", "b", "c", "d", "e", "f", "g", "h", "i", "j", "k", "l", "m", "n",
    "o", "p", "q", "r", "s", "t", "u", "v", "w", "x", "y", "z", "A", "B",
    "C", "D", "E", "F", "G", "H", "I", "J", "K", "L", "M", "N", "O", "P",
    "Q", "R", "S", "T", "U", "V", "W", "X", "Y", "Z", "0", "1", "2", "3",
    "4", "5", "6", "7", "8", "9", "seon", "bak", "an", "jeon", "jeom",
    "geom", " ", "\t", "\n", "\r", ".", ",", "!", "?", "(", ")", ":", ";",
    "-", "<", ">", "@", "=", "/", "_", "%", "+", "#", "*", "&">>
CharCode(c) == CHOOSE i \in 1..Len(CharTable) : CharTable[i] = c

\* the digest has a fixed width
DigestSpace == 2 ^ 16

RECURSIVE DigestFrom(_, _, _)
DigestFrom(content, i, h) ==
  IF i > Len(content) THEN h
  ELSE DigestFrom(content, i + 1, (h * 131 + CharCode(content[i])) % DigestSpace)

\* _generate_content_hash: sha256 of the encoded content, as a digest of
\* fixed width that depends on nothing but the characters and their order
GenerateContentHash(content) == DigestFrom(content, 1, 7)

\* json.dumps(keywords, ensure_ascii=False)
JsonDumps(keywords) == [kind |-> "list", items |-> keywords]

\* what the keywords column of a row written by other hands may hold: NULL,
\* the empty string, text that is no JSON, a value that is no text, and JSON
\* text that decodes to something other than a list
NullPayload == [kind |-> "null", items |-> <<>>]
EmptyPayload == [kind |-> "empty", items |-> <<>>]
UndecodablePayload == [kind |-> "undecodable", items |-> <<>>]
NotTextPayload == [kind |-> "not_text", items |-> <<>>]
OtherJsonPayload == [kind |-> "other_json", items |-> <<>>]

\* existing_keywords of lines 45-48
Decoded(raised, is_list, items) ==
  [raised |-> raised, is_list |-> is_list, items |-> items]

\* the try without its except: what json.loads raises reaches the caller
ExistingKeywordsUncaught(payload) ==
  IF payload.kind \in {"null", "empty"} THEN Decoded(FALSE, TRUE, <<>>)
  ELSE IF payload.kind \in {"undecodable", "not_text"}
  THEN Decoded(TRUE, TRUE, <<>>)
  ELSE IF payload.kind = "list" THEN Decoded(FALSE, TRUE, payload.items)
  ELSE Decoded(FALSE, FALSE, <<>>)

\* json.loads(payload) if payload else [], and [] on JSONDecodeError or
\* TypeError (lines 45-48); JSON text that decodes to no list is handed back
\* as decoded
ExistingKeywords(payload) ==
  IF payload.kind \in {"null", "empty"} THEN Decoded(FALSE, TRUE, <<>>)
  ELSE IF payload.kind \in {"undecodable", "not_text"}
  THEN Decoded(FALSE, TRUE, <<>>)
  ELSE IF payload.kind = "list" THEN Decoded(FALSE, TRUE, payload.items)
  ELSE Decoded(FALSE, FALSE, <<>>)

\* the lookup with the content_hash test left out of the WHERE clause
MatchingRowsByIdOnly(rows, content_hash, mail_id) ==
  {i \in 1..Len(rows) : rows[i].message_id = mail_id}

\* the lookup with AND in the place of OR
MatchingRowsByBoth(rows, content_hash, mail_id) ==
  {i \in 1..Len(rows) :
     rows[i].content_hash = content_hash /\ rows[i].message_id = mail_id}

\* the rows SELECT ... WHERE content_hash = ? OR message_id = ? sees
MatchingRows(rows, content_hash, mail_id) ==
  {i \in 1..Len(rows) :
     rows[i].content_hash = content_hash \/ rows[i].message_id = mail_id}

\* what check_duplicate_by_content_hash hands to its caller
Checked(status, dup, keywords, is_list) ==
  [status |-> status, dup |-> dup, keywords |-> keywords,
   is_list |-> is_list]

\* lines 43-51 for the row the lookup found
CheckOfRow(row) ==
  LET existing_keywords == ExistingKeywords(row.keywords)
  IN  IF existing_keywords.raised THEN Checked("raised", FALSE, <<>>, TRUE)
      ELSE Checked("returned", TRUE, existing_keywords.items,
                   existing_keywords.is_list)

\* check_duplicate_by_content_hash on a table that has the column: LIMIT 1
\* without ORDER BY hands back any one of the matching rows
CheckResults(rows, mail_id, content) ==
  LET found == MatchingRows(rows, GenerateContentHash(content), mail_id)
  IN  IF found = {} THEN {Checked("returned", FALSE, <<>>, TRUE)}
      ELSE {CheckOfRow(rows[i]) : i \in found}

\* the row the INSERT of save_mail_with_hash writes (lines 73-91)
\* the row with the hash of line 64 left out
MailRowWithoutHash(actual_account_id, mail_id, keywords, clean_content) ==
  [account_id |-> actual_account_id, message_id |-> mail_id,
   keywords |-> JsonDumps(keywords), content_hash |-> -1]

MailRow(actual_account_id, mail_id, keywords, clean_content) ==
  [account_id |-> actual_account_id, message_id |-> mail_id,
   keywords |-> JsonDumps(keywords),
   content_hash |-> GenerateContentHash(clean_content)]

\* the content_hash of a row that was there before the column: the ALTER
\* TABLE of line 186 leaves it NULL, which equals no hash
NoHash == -1

\* a row of mail_history that save_mail_with_hash did not write
LegacyRow(mail_id, payload) ==
  [account_id |-> 1, message_id |-> mail_id, keywords |-> payload,
   content_hash |-> NoHash]

\* SELECT id FROM accounts WHERE user_id = ?
AccountIds(accts, user_id) ==
  {accts[i].id : i \in {j \in 1..Len(accts) : accts[j].user_id = user_id}}

(***************************************************************************)
(* Inputs of the store's callers.                                          *)
(***************************************************************************)
\* how many callers use the store at once
NClients == 2
Clients == 1..NClients
\* the most rows the model lets mail_history and accounts grow to
MaxRows == 2
MaxAccounts == 2

MailIds == {"m1", "m2"}
\* the keywords columns of the rows other hands wrote: ["crew", "ship"], []
\* and the payloads that are no list
LegacyKeywords == <<<<"c", "r", "e", "w">>, <<"s", "h", "i", "p">>>>
LegacyPayloads ==
  {NullPayload, EmptyPayload, UndecodablePayload, NotTextPayload,
   OtherJsonPayload, JsonDumps(<<>>), JsonDumps(LegacyKeywords)}

\* cleaned contents: "ship port", "crew"
CleanContents == {<<"s", "h", "i", "p", " ", "p", "o", "r", "t">>, <<"c", "r", "e", "w">>}

\* processed_mail.account_id: a user_id string, or already the integer id
StrRef(user_id) == [is_int |-> FALSE, id |-> 0, user_id |-> user_id]
IntRef(id) == [is_int |-> TRUE, id |-> id, user_id |-> ""]
AccountRefs == {StrRef("u1"), IntRef(1)}

\* processed_mail.keywords: what the extractor found in the content
MailKeywords(content) == FallbackKeywordExtraction(content, MaxKeywordsBound)

\* how many extract_keywords calls run at once
NRequests == 1
Requests == 1..NRequests

\* the most aiohttp.ClientSession objects the model lets one service create
MaxSessions == 3
\* self._session is None
NoSession == 0
\* the coroutines that release the session
ReleaseOps == {"__aexit__", "close"}

VARIABLES
  mail_history,    \* the rows of the mail_history table, in insert order
  accounts,        \* the rows of the accounts table, in insert order
  hash_column,     \* mail_history has the content_hash column
  client,          \* each caller of the store: its call and how far it is
  saved_contents,  \* history: the contents whose save has completed
  api_key,         \* MailProcessorKeywordExtractorService.api_key
  req,             \* each extract_keywords call: its arguments and state
  session,         \* self._session: NoSession or the place of a session
  sessions,        \* every ClientSession the service created: is it open
  closer,          \* the __aexit__ or close call under way, if any
  probeIn,         \* the argument of a function applied on its own
  probeOut         \* and what the function gave

vars == <<mail_history, accounts, hash_column, client, saved_contents,
          api_key, req, session, sessions, closer, probeIn, probeOut>>
storeVars == <<mail_history, accounts, hash_column, client, saved_contents>>
sessionVars == <<session, sessions, closer>>
extractVars == <<api_key, req, session, sessions, closer>>
probeVars == <<probeIn, probeOut>>

NoCheck == Checked("none", FALSE, <<>>, TRUE)
IdleClient == [pc |-> "idle", mail_id |-> "", content |-> <<>>,
               account |-> IntRef(0), actual_account_id |-> 0, check |-> NoCheck]

IdleRequest == [pc |-> "idle", text |-> <<>>, max_keywords |-> 0,
                clean_text |-> <<>>, outcome |-> NoOutcome,
                response |-> NoResponse, remote_calls |-> 0,
                fallback_runs |-> 0]

IdleCloser == [pc |-> "idle", op |-> "none"]

NoProbe == [op |-> "none"]

StoreInit ==
  /\ mail_history = <<>>
  /\ accounts \in {<<>>, <<[id |-> 1, user_id |-> "u1"]>>}
  /\ hash_column \in BOOLEAN
  /\ client = [p \in Clients |-> IdleClient]
  /\ saved_contents = {}

StoreUnused ==
  /\ mail_history = <<>>
  /\ accounts = <<>>
  /\ hash_column = TRUE
  /\ client = [p \in Clients |-> IdleClient]
  /\ saved_contents = {}

\* __init__ (lines 18-28): no session yet
SessionInit ==
  /\ session = NoSession
  /\ sessions = <<>>
  /\ closer = IdleCloser

ExtractInit ==
  /\ api_key \in ApiKeys
  /\ req = [r \in Requests |-> IdleRequest]
  /\ SessionInit

ExtractUnused ==
  /\ api_key = NoKey
  /\ req = [r \in Requests |-> IdleRequest]
  /\ SessionInit

ProbeUnused ==
  /\ probeIn = <<>>
  /\ probeOut = NoProbe

(***************************************************************************)
(* MailDatabaseService.  A caller's call runs one storage statement per    *)
(* step, so that the statements of concurrent callers interleave.          *)
(***************************************************************************)
\* check_duplicate_by_content_hash (lines 19-53).  On a table without the
\* column the statement names a column the table does not have: fetch_one
\* raises and nothing catches it (line 41)
CheckDuplicate(p, mail_id, content) ==
  /\ client[p].pc = "idle"
  /\ \E check \in
          IF hash_column
          THEN CheckResults(mail_history, mail_id, content)
          ELSE {[NoCheck EXCEPT !.status = "raised"]} :
       client' = [client EXCEPT ![p] =
                    [IdleClient EXCEPT !.pc = "checked", !.mail_id = mail_id,
                       !.content = content, !.check = check]]
  /\ UNCHANGED <<mail_history, accounts, hash_column, saved_contents>>
  /\ UNCHANGED <<extractVars, probeVars>>

\* save_mail_with_hash is entered (line 55) ...
BeginSave(p, mail_id, content, account) ==
  client' = [client EXCEPT ![p] =
               [@ EXCEPT !.pc = "acct_lookup", !.mail_id = mail_id,
                  !.content = content, !.account = account]]

\* ... by an ingest whose check has just said "no duplicate"
IngestSave(p, account) ==
  /\ client[p].pc = "checked"
  /\ client[p].check.status = "returned"
  /\ ~client[p].check.dup
  /\ BeginSave(p, client[p].mail_id, client[p].content, account)
  /\ UNCHANGED <<mail_history, accounts, hash_column, saved_contents>>
  /\ UNCHANGED <<extractVars, probeVars>>

\* ... or by a caller that did not ask the gate
DirectSave(p, mail_id, content, account) ==
  /\ client[p].pc = "idle"
  /\ BeginSave(p, mail_id, content, account)
  /\ UNCHANGED <<mail_history, accounts, hash_column, saved_contents>>
  /\ UNCHANGED <<extractVars, probeVars>>

\* the SELECT of line 163 left out: every user_id goes on to the INSERT
AccountLookupAlwaysInserts(p) ==
  /\ client[p].pc = "acct_lookup"
  /\ IF client[p].account.is_int
     THEN client' = [client EXCEPT ![p].pc = "alter",
                                   ![p].actual_account_id =
                                     client[p].account.id]
     ELSE client' = [client EXCEPT ![p].pc = "acct_insert"]
  /\ UNCHANGED <<mail_history, accounts, hash_column, saved_contents>>
  /\ UNCHANGED <<extractVars, probeVars>>

\* _get_actual_account_id, lines 159-166: an integer is returned as it is,
\* a known user_id gives its id, an unknown one goes on to the INSERT
AccountLookup(p) ==
  /\ client[p].pc = "acct_lookup"
  /\ LET ref == client[p].account
         ids == AccountIds(accounts, ref.user_id)
     IN  IF ref.is_int
         THEN client' = [client EXCEPT ![p].pc = "alter",
                                       ![p].actual_account_id = ref.id]
         ELSE IF ids # {}
         THEN \E id \in ids :
                client' = [client EXCEPT ![p].pc = "alter",
                                         ![p].actual_account_id = id]
         ELSE client' = [client EXCEPT ![p].pc = "acct_insert"]
  /\ UNCHANGED <<mail_history, accounts, hash_column, saved_contents>>
  /\ UNCHANGED <<extractVars, probeVars>>

\* lines 169-177: the placeholder account is inserted
AccountInsert(p) ==
  /\ client[p].pc = "acct_insert"
  /\ Len(accounts) < MaxAccounts
  /\ accounts' = Append(accounts, [id |-> Len(accounts) + 1,
                                   user_id |-> client[p].account.user_id])
  /\ client' = [client EXCEPT ![p].pc = "acct_refetch"]
  /\ UNCHANGED <<mail_history, hash_column, saved_contents>>
  /\ UNCHANGED <<extractVars, probeVars>>

\* the INSERT raises, and save_mail_with_hash with it
AccountInsertRaises(p) ==
  /\ client[p].pc = "acct_insert"
  /\ client' = [client EXCEPT ![p].pc = "save_failed",
                                ![p].account = IdleClient.account,
                                ![p].actual_account_id = 0]
  /\ UNCHANGED <<mail_history, accounts, hash_column, saved_contents>>
  /\ UNCHANGED <<extractVars, probeVars>>

\* lines 179-181: the id of the account is read back
AccountRefetch(p) ==
  /\ client[p].pc = "acct_refetch"
  /\ \E id \in AccountIds(accounts, client[p].account.user_id) :
       client' = [client EXCEPT ![p].pc = "alter",
                                ![p].actual_account_id = id]
  /\ UNCHANGED <<mail_history, accounts, hash_column, saved_contents>>
  /\ UNCHANGED <<extractVars, probeVars>>

\* the schema step without its try: the ALTER TABLE of a table that has
\* the column raises, and save_mail_with_hash with it
EnsureColumnUncaught(p) ==
  /\ client[p].pc = "alter"
  /\ hash_column' = TRUE
  /\ client' = [client EXCEPT ![p].pc =
                  IF hash_column THEN "save_failed" ELSE "insert"]
  /\ UNCHANGED <<mail_history, accounts, saved_contents>>
  /\ UNCHANGED <<extractVars, probeVars>>

\* _ensure_content_hash_column (lines 183-191): the ALTER TABLE adds the
\* column, as plain TEXT, to a table that lacks it, or raises, because the
\* column is there or for any other reason, and the exception is dropped
EnsureColumn(p) ==
  /\ client[p].pc = "alter"
  /\ hash_column' \in {TRUE, hash_column}
  /\ client' = [client EXCEPT ![p].pc = "insert"]
  /\ UNCHANGED <<mail_history, accounts, saved_contents>>
  /\ UNCHANGED <<extractVars, probeVars>>

\* lines 73-93: the row is inserted and save_mail_with_hash returns
InsertMail(p) ==
  /\ client[p].pc = "insert"
  /\ hash_column
  /\ Len(mail_history) < MaxRows
  /\ mail_history' = Append(mail_history,
                            MailRow(client[p].actual_account_id,
                                    client[p].mail_id,
                                    MailKeywords(client[p].content),
                                    client[p].content))
  /\ saved_contents' = saved_contents \cup {client[p].content}
  /\ client' = [client EXCEPT ![p].pc = "saved",
                                ![p].account = IdleClient.account,
                                ![p].actual_account_id = 0]
  /\ UNCHANGED <<accounts, hash_column>>
  /\ UNCHANGED <<extractVars, probeVars>>

\* the row is written and the call raises all the same
InsertMailRaisesAfterWrite(p) ==
  /\ client[p].pc = "insert"
  /\ hash_column
  /\ Len(mail_history) < MaxRows
  /\ mail_history' = Append(mail_history,
                            MailRow(client[p].actual_account_id,
                                    client[p].mail_id,
                                    MailKeywords(client[p].content),
                                    client[p].content))
  /\ client' = [client EXCEPT ![p].pc = "save_failed",
                                ![p].account = IdleClient.account,
                                ![p].actual_account_id = 0]
  /\ UNCHANGED <<accounts, hash_column, saved_contents>>
  /\ UNCHANGED <<extractVars, probeVars>>

\* the INSERT raises (always so on a table without the column), and
\* save_mail_with_hash with it
InsertMailRaises(p) ==
  /\ client[p].pc = "insert"
  /\ client' = [client EXCEPT ![p].pc = "save_failed",
                                ![p].account = IdleClient.account,
                                ![p].actual_account_id = 0]
  /\ UNCHANGED <<mail_history, accounts, hash_column, saved_contents>>
  /\ UNCHANGED <<extractVars, probeVars>>

\* the caller is back from its call
ClientReturn(p) ==
  /\ client[p].pc \in {"checked", "saved", "save_failed"}
  /\ client' = [client EXCEPT ![p] = IdleClient]
  /\ UNCHANGED <<mail_history, accounts, hash_column, saved_contents>>
  /\ UNCHANGED <<extractVars, probeVars>>

(***************************************************************************)
(* MailProcessorKeywordExtractorService.extract_keywords.  A call runs up  *)
(* to the awaited POST in one step and from the answer to its return in a  *)
(* second one.                                                             *)
(***************************************************************************)
Called(r, text, max_keywords) ==
  [IdleRequest EXCEPT !.text = text, !.max_keywords = max_keywords]

\* the call has returned response
Returned(call, response) ==
  [call EXCEPT !.pc = "done", !.response = response]

\* the except branch (lines 92-101): the fallback runs on the raw text, and
\* nothing catches what it raises
Handled(call) ==
  IF CleanTextRaises(call.text)
  THEN [call EXCEPT !.pc = "raised", !.fallback_runs = @ + 1]
  ELSE [Returned(call, FallbackErrorResponse(call.text, call.max_keywords))
          EXCEPT !.fallback_runs = @ + 1]

\* lines 51-90 of a call that sends no request: the body is too short, there
\* is no API key, or cleaning the body raises
Unsent(call) ==
  IF CleanTextRaises(call.text) THEN Handled(call)
  ELSE LET clean_text == Cleaned(call.text)
           cleaned == [call EXCEPT !.clean_text = clean_text]
       IN  IF TooShort(clean_text) THEN Returned(cleaned, EmptyTextResponse)
           ELSE [Returned(cleaned,
                          FallbackResponse(clean_text, call.max_keywords))
                   EXCEPT !.fallback_runs = @ + 1]

\* the test for the API key (line 68) left out
SendsWithoutKey(text) ==
  /\ ~CleanTextRaises(text)
  /\ ~TooShort(Cleaned(text))

\* the call sends a request: the body cleans to ten characters or more and
\* an API key is configured
Sends(text) ==
  /\ ~CleanTextRaises(text)
  /\ ~TooShort(Cleaned(text))
  /\ api_key # NoKey

\* extract_keywords returns without a request
ExtractLocally(r, text, max_keywords) ==
  /\ req[r].pc = "idle"
  /\ ~Sends(text)
  /\ req' = [req EXCEPT ![r] = Unsent(Called(r, text, max_keywords))]
  /\ UNCHANGED <<api_key, sessionVars, storeVars, probeVars>>

\* aiohttp.ClientSession(): one more session, open
Created(all) == Append(all, TRUE)

\* session.close(): the session at place i is closed
Closed(all, i) == [all EXCEPT ![i] = FALSE]

\* self._session is None or self._session.closed (line 105)
NeedsSession == session = NoSession \/ ~sessions[session]

\* _get_session (lines 103-107): the session is made on first use and again
\* once it is closed
GetSession ==
  IF NeedsSession
  THEN /\ Len(sessions) < MaxSessions
       /\ sessions' = Created(sessions)
       /\ session' = Len(sessions) + 1
  ELSE UNCHANGED <<session, sessions>>

\* extract_keywords up to the POST of _call_openrouter_api (line 162), the
\* session taken at line 160 on the way
ExtractSend(r, text, max_keywords) ==
  /\ req[r].pc = "idle"
  /\ Sends(text)
  /\ GetSession
  /\ req' = [req EXCEPT ![r] =
               [Called(r, text, max_keywords) EXCEPT
                  !.pc = "awaiting", !.clean_text = Cleaned(text),
                  !.remote_calls = @ + 1]]
  /\ UNCHANGED <<api_key, closer, storeVars, probeVars>>

\* a statement of _call_openrouter_api ahead of its own try (lines 114-155:
\* the slices of the key, the logging, json.dumps) raises: only the except
\* branch of extract_keywords catches it
ExtractSendRaises(r, text, max_keywords) ==
  /\ req[r].pc = "idle"
  /\ Sends(text)
  /\ req' = [req EXCEPT ![r] =
               Handled([Called(r, text, max_keywords) EXCEPT
                          !.clean_text = Cleaned(text),
                          !.outcome = RaisedOutcome])]
  /\ UNCHANGED <<api_key, sessionVars, storeVars, probeVars>>

\* an attempt that brought no keywords is sent again instead of falling back
ExtractReceiveRetries(r, outcome) ==
  /\ req[r].pc = "awaiting"
  /\ LET call == req[r]
         keywords == ApiKeywords(outcome, call.max_keywords)
         token_info == ApiTokenInfo(outcome)
     IN  req' = [req EXCEPT ![r] =
                   IF UseRemote(keywords)
                   THEN [Returned(call, RemoteResponse(keywords, token_info))
                           EXCEPT !.outcome = outcome]
                   ELSE [call EXCEPT !.outcome = outcome]]
  /\ UNCHANGED <<api_key, sessionVars, storeVars, probeVars>>

\* the POST is answered, fails or times out; _call_openrouter_api returns
\* and extract_keywords after it (lines 72-90)
ExtractReceive(r, outcome) ==
  /\ req[r].pc = "awaiting"
  /\ LET call == req[r]
         keywords == ApiKeywords(outcome, call.max_keywords)
         token_info == ApiTokenInfo(outcome)
     IN  req' = [req EXCEPT ![r] =
                   [Returned(call, AfterApiResponse(call.clean_text,
                                                    call.max_keywords,
                                                    keywords, token_info))
                      EXCEPT !.outcome = outcome,
                             !.fallback_runs =
                               IF UseRemote(keywords) THEN @ ELSE @ + 1]]
  /\ UNCHANGED <<api_key, sessionVars, storeVars, probeVars>>

\* the caller has taken the result (or the exception)
ExtractReturn(r) ==
  /\ req[r].pc \in {"done", "raised"}
  /\ req' = [req EXCEPT ![r] = IdleRequest]
  /\ UNCHANGED <<api_key, sessionVars, storeVars, probeVars>>

\* extract_keywords on bodies that are str or None
ExtractNext ==
  \/ \E r \in Requests, text \in Texts, k \in MaxKeywordsValues :
       ExtractLocally(r, text, k)
  \/ \E r \in Requests, text \in Texts, k \in MaxKeywordsValues :
       ExtractSend(r, text, k)
  \/ \E r \in Requests, text \in Texts, k \in MaxKeywordsValues :
       ExtractSendRaises(r, text, k)
  \/ \E r \in Requests, outcome \in RemoteOutcomes :
       ExtractReceive(r, outcome)
  \/ \E r \in Requests : ExtractReturn(r)

\* extract_keywords on any body a caller may hand over
ExtractAnyNext ==
  \/ ExtractNext
  \/ \E r \in Requests, k \in MaxKeywordsValues : ExtractLocally(r, NonStr, k)

\* __aenter__ (lines 30-33): a new session takes the place of whatever
\* self._session held
AEnter ==
  /\ Len(sessions) < MaxSessions
  /\ sessions' = Created(sessions)
  /\ session' = Len(sessions) + 1
  /\ UNCHANGED <<api_key, req, closer, storeVars, probeVars>>

\* __aexit__ (lines 35-38) and close (lines 41-44) up to the awaited
\* self._session.close(): the session self._session holds is closed; with no
\* session the call is over at once
Close(op) ==
  /\ closer.pc = "idle"
  /\ IF session # NoSession
     THEN /\ sessions' = Closed(sessions, session)
          /\ closer' = [pc |-> "closing", op |-> op]
     ELSE /\ sessions' = sessions
          /\ closer' = [pc |-> "closed", op |-> op]
  /\ UNCHANGED <<api_key, req, session, storeVars, probeVars>>

\* self._session = None (lines 39 and 45), once the awaited close is over
CloseDone ==
  /\ closer.pc = "closing"
  /\ session' = NoSession
  /\ closer' = [closer EXCEPT !.pc = "closed"]
  /\ UNCHANGED <<api_key, req, sessions, storeVars, probeVars>>

\* the caller is back from __aexit__ or close
CloseReturn ==
  /\ closer.pc = "closed"
  /\ closer' = IdleCloser
  /\ UNCHANGED <<api_key, req, session, sessions, storeVars, probeVars>>

\* one service used in every way: extract_keywords, async with, close
SessionNext ==
  \/ ExtractNext
  \/ AEnter
  \/ \E op \in ReleaseOps : Close(op)
  \/ CloseDone
  \/ CloseReturn

InitExtract == StoreUnused /\ ExtractInit /\ ProbeUnused

SpecSession == InitExtract /\ [][SessionNext]_vars

\* one service on which close() runs beside extract_keywords calls
CloseNext ==
  \/ ExtractNext
  \/ Close("close")
  \/ CloseDone
  \/ CloseReturn

SpecClose == InitExtract /\ [][CloseNext]_vars

SpecExtract == InitExtract /\ [][ExtractNext]_vars

SpecExtractAny == InitExtract /\ [][ExtractAnyNext]_vars

\* the awaited POST of no call stays pending: the endpoint answers, the
\* connection fails, or ClientTimeout(total=30) (line 166) ends the wait, and
\* the event loop resumes the call
SpecExtractLive ==
  /\ SpecExtract
  /\ \A r \in Requests :
       WF_vars(\E outcome \in RemoteOutcomes : ExtractReceive(r, outcome))

\* an ingest: the gate, then save only when the gate found no duplicate
IngestNext ==
  \/ \E p \in Clients, m \in MailIds, c \in CleanContents :
       CheckDuplicate(p, m, c)
  \/ \E p \in Clients, a \in AccountRefs : IngestSave(p, a)
  \/ \E p \in Clients : AccountLookup(p)
  \/ \E p \in Clients : AccountInsert(p)
  \/ \E p \in Clients : AccountInsertRaises(p)
  \/ \E p \in Clients : AccountRefetch(p)
  \/ \E p \in Clients : EnsureColumn(p)
  \/ \E p \in Clients : InsertMail(p)
  \/ \E p \in Clients : InsertMailRaises(p)
  \/ \E p \in Clients : ClientReturn(p)

\* every use of MailDatabaseService
Next ==
  \/ IngestNext
  \/ \E p \in Clients, m \in MailIds, c \in CleanContents,
        a \in AccountRefs : DirectSave(p, m, c, a)

Init == StoreInit /\ ExtractUnused /\ ProbeUnused

\* caller p is inside save_mail_with_hash
Saving(p) ==
  client[p].pc \in {"acct_lookup", "acct_insert", "acct_refetch", "alter",
                    "insert"}

\* no other caller is inside save_mail_with_hash
Alone(p) == \A q \in Clients \ {p} : ~Saving(q)

\* the callers share one thread: save_mail_with_hash is a plain def without
\* an await (lines 55-93), so a save runs from its first statement to its
\* return before any other call starts; checks and saves of different
\* ingests still alternate call by call
SerialNext ==
  \/ \E p \in Clients, m \in MailIds, c \in CleanContents :
       Alone(p) /\ CheckDuplicate(p, m, c)
  \/ \E p \in Clients, a \in AccountRefs : Alone(p) /\ IngestSave(p, a)
  \/ \E p \in Clients, m \in MailIds, c \in CleanContents,
        a \in AccountRefs : Alone(p) /\ DirectSave(p, m, c, a)
  \/ \E p \in Clients : Alone(p) /\ AccountLookup(p)
  \/ \E p \in Clients : Alone(p) /\ AccountInsert(p)
  \/ \E p \in Clients : Alone(p) /\ AccountInsertRaises(p)
  \/ \E p \in Clients : Alone(p) /\ AccountRefetch(p)
  \/ \E p \in Clients : Alone(p) /\ EnsureColumn(p)
  \/ \E p \in Clients : Alone(p) /\ InsertMail(p)
  \/ \E p \in Clients : Alone(p) /\ InsertMailRaises(p)
  \/ \E p \in Clients : Alone(p) /\ ClientReturn(p)

Spec == Init /\ [][Next]_vars

SpecSerial == Init /\ [][SerialNext]_vars

SpecIngest == Init /\ [][IngestNext]_vars

\* ingests into a table that holds a row from before the content_hash
\* column, with whatever its keywords column held
InitLegacy ==
  /\ \E payload \in LegacyPayloads :
       mail_history = <<LegacyRow("m1", payload)>>
  /\ accounts = <<>>
  /\ hash_column = TRUE
  /\ client = [p \in Clients |-> IdleClient]
  /\ saved_contents = {}
  /\ ExtractUnused
  /\ ProbeUnused

SpecLegacy == InitLegacy /\ [][IngestNext]_vars

(***************************************************************************)
(* _clean_text in the two places the program composes it: applied to its   *)
(* own output (extract_keywords cleans at line 55 and                      *)
(* _fallback_keyword_extraction cleans the result again at line 239), and  *)
(* ahead of the dedup gate, whose content argument is the cleaned body.    *)
(***************************************************************************)
\* the longest body the model enumerates
MaxBodyLen == 4
BodyChars == {"b", " ", "\n", "\r", "-", "<", ">"}
\* "plan b is", "aa<bb", "a\nship  port"
BodySamples ==
  {<<"p", "l", "a", "n", " ", "b", " ", "i", "s">>,
   <<"a", "a", "<", "b", "b">>,
   <<"a", "\n", "s", "h", "i", "p", " ", " ", "p", "o", "r", "t">>}
Bodies ==
  UNION {[1..n -> BodyChars] : n \in 0..MaxBodyLen} \cup BodySamples

\* the body inside an HTML tag pair: "<p>" body "</p>"
HtmlWrapped(body) == <<"<", "p", ">">> \o body \o <<"<", "/", "p", ">">>

\* the body with the whitespace character at i written twice
RunLengthened(body, i) ==
  SubSeq(body, 1, i) \o <<body[i]>> \o SubSeq(body, i + 1, Len(body))

\* the body with every "\n" written as eol
RECURSIVE WithLineEnding(_, _)
WithLineEnding(body, eol) ==
  IF body = <<>> THEN <<>>
  ELSE (IF Head(body) = "\n" THEN eol ELSE <<Head(body)>>)
         \o WithLineEnding(Tail(body), eol)

\* the bodies that differ from body by an HTML tag wrapper, by the length
\* of a whitespace run, or (for a body with LF line ends) by the line-ending
\* style
Variants(body) ==
  {HtmlWrapped(body)}
  \cup {RunLengthened(body, i) :
          i \in {j \in 1..Len(body) : body[j] \in Whitespace}}
  \cup (IF (\E i \in 1..Len(body) : body[i] = "\n")
           /\ (\A i \in 1..Len(body) : body[i] # "\r")
        THEN {WithLineEnding(body, <<"\r", "\n">>),
              WithLineEnding(body, <<"\r">>)}
        ELSE {})

\* extract_keywords without an API key: _clean_text at line 55, and again
\* on its result at line 239
CleanTwice ==
  /\ probeOut = NoProbe
  /\ probeOut' = [op |-> "clean", first |-> CleanText(probeIn),
                  second |-> CleanText(CleanText(probeIn))]
  /\ UNCHANGED <<probeIn, storeVars, extractVars>>

\* on an empty mail_history the body is ingested under "m1" (cleaned,
\* checked, saved); then a variant of it is cleaned and checked under "m2"
IngestVariant(variant) ==
  /\ probeOut = NoProbe
  /\ LET first == CleanText(probeIn)
         second == CleanText(variant)
         rows == <<MailRow(1, "m1", MailKeywords(first), first)>>
     IN  probeOut' = [op |-> "dedup", first |-> first, second |-> second,
                      dups |-> {r.dup : r \in CheckResults(rows, "m2", second)}]
  /\ UNCHANGED <<probeIn, storeVars, extractVars>>

CleanNext ==
  \/ CleanTwice
  \/ \E variant \in Variants(probeIn) : IngestVariant(variant)

InitClean ==
  /\ StoreUnused
  /\ ExtractUnused
  /\ probeIn \in Bodies
  /\ probeOut = NoProbe

SpecClean == InitClean /\ [][CleanNext]_vars

(***************************************************************************)
(* _parse_keywords applied on its own to the answers a model may give.     *)
(***************************************************************************)
\* "1. 선박\n2. 안전\n3. 점검" in the romanised characters of the model
AnswerNumbered ==
  <<"1", ".", " ", "seon", "bak", "\n", "2", ".", " ", "an", "jeon", "\n",
    "3", ".", " ", "jeom", "geom">>
\* "apple, banana, cherry"
AnswerCommas ==
  <<"a", "p", "p", "l", "e", ",", " ", "b", "a", "n", "a", "n", "a", ",",
    " ", "c", "h", "e", "r", "r", "y">>
\* "alpha\nbeta\ngamma"
AnswerLines ==
  <<"a", "l", "p", "h", "a", "\n", "b", "e", "t", "a", "\n", "g", "a", "m",
    "m", "a">>
\* "one two three"
AnswerWords ==
  <<"o", "n", "e", " ", "t", "w", "o", " ", "t", "h", "r", "e", "e">>
\* "v1.2 ship, port": a digit and a dot inside the first of two items
AnswerVersioned ==
  <<"v", "1", ".", "2", " ", "s", "h", "i", "p", ",", " ", "p", "o", "r",
    "t">>

\* "ab, AB, ab, -ab-, a": an item three times over, once in capitals and
\* once between hyphens
AnswerRepeats ==
  <<"a", "b", ",", " ", "A", "B", ",", " ", "a", "b", ",", " ", "-", "a",
    "b", "-", ",", " ", "a">>
\* "Go go go."
AnswerRepeatedWords == <<"G", "o", " ", "g", "o", " ", "g", "o", ".">>

\* the keywords of the five answers: 선박 안전 점검, apple banana cherry,
\* alpha beta gamma, one two three
KeywordsNumbered ==
  <<<<"seon", "bak">>, <<"an", "jeon">>, <<"jeom", "geom">>>>
KeywordsCommas ==
  <<<<"a", "p", "p", "l", "e">>, <<"b", "a", "n", "a", "n", "a">>,
    <<"c", "h", "e", "r", "r", "y">>>>
KeywordsLines ==
  <<<<"a", "l", "p", "h", "a">>, <<"b", "e", "t", "a">>,
    <<"g", "a", "m", "m", "a">>>>
KeywordsWords ==
  <<<<"o", "n", "e">>, <<"t", "w", "o">>, <<"t", "h", "r", "e", "e">>>>

\* the longest answer the model enumerates
MaxContentLen == 4
ContentChars == {"1", ".", ",", "\n", " ", "a", "b"}
Contents ==
  UNION {[1..n -> ContentChars] : n \in 0..MaxContentLen}
  \cup {AnswerNumbered, AnswerCommas, AnswerLines, AnswerWords,
        AnswerVersioned, ContentNoKeyword, ContentComma, ContentNumbered,
        AnswerRepeats, AnswerRepeatedWords}

\* keywords = self._parse_keywords(content) (line 217)
ParseContent ==
  /\ probeOut = NoProbe
  /\ probeOut' = [op |-> "parse", format |-> ParseFormat(probeIn),
                  keywords |-> ParseKeywords(probeIn)]
  /\ UNCHANGED <<probeIn, storeVars, extractVars>>

ParseNext == ParseContent

InitParse ==
  /\ StoreUnused
  /\ ExtractUnused
  /\ probeIn \in Contents
  /\ probeOut = NoProbe

SpecParse == InitParse /\ [][ParseNext]_vars

(***************************************************************************)
(* _fallback_keyword_extraction applied on its own to cleaned bodies made  *)
(* of a few words.                                                         *)
(***************************************************************************)
\* the most words in a body
MaxWords == 4
\* "ship", "선박", "EA004": a word of each token class
BodyWords ==
  {<<"s", "h", "i", "p">>, <<"seon", "bak">>, <<"E", "A", "0", "0", "4">>}

RECURSIVE Joined(_)
\* " ".join(words)
Joined(words) ==
  IF words = <<>> THEN <<>>
  ELSE IF Len(words) = 1 THEN words[1]
  ELSE words[1] \o <<" ">> \o Joined(Tail(words))

WordBodies ==
  {Joined(words) : words \in UNION {[1..n -> BodyWords] : n \in 0..MaxWords}}

\* self._fallback_keyword_extraction(clean_text, max_keywords) (line 83)
FallbackOn(max_keywords) ==
  /\ probeOut = NoProbe
  /\ probeOut' = [op |-> "fallback", max_keywords |-> max_keywords,
                  keywords |->
                    FallbackKeywordExtraction(probeIn, max_keywords)]
  /\ UNCHANGED <<probeIn, storeVars, extractVars>>

FallbackNext == \E k \in MaxKeywordsValues : FallbackOn(k)

InitFallback ==
  /\ StoreUnused
  /\ ExtractUnused
  /\ probeIn \in WordBodies
  /\ probeOut = NoProbe

SpecFallback == InitFallback /\ [][FallbackNext]_vars

\* the most pieces a body of the two-path comparison is made of
MaxPieces == 4
\* "ship", "b", "-", "--", " ", "REQ-12", "선박", "<div>"
BodyPieces ==
  {<<"s", "h", "i", "p">>, <<"b">>, <<"-">>, <<"-", "-">>, <<" ">>,
   <<"R", "E", "Q", "-", "1", "2">>, <<"seon", "bak">>,
   <<"<", "d", "i", "v", ">">>}

RECURSIVE Concat(_)
\* "".join(pieces)
Concat(pieces) ==
  IF pieces = <<>> THEN <<>> ELSE Head(pieces) \o Concat(Tail(pieces))

PieceBodies ==
  {Concat(pieces) :
     pieces \in UNION {[1..n -> BodyPieces] : n \in 0..MaxPieces}}

\* the keywords of the two local results of extract_keywords for one body:
\* line 83 runs the fallback on clean_text (the body cleaned at line 55),
\* line 96 runs it on the body itself
FallbackBothPaths(max_keywords) ==
  /\ probeOut = NoProbe
  /\ probeOut' =
       [op |-> "paths", max_keywords |-> max_keywords,
        clean_text |-> CleanText(probeIn),
        fallback |->
          FallbackKeywordExtraction(CleanText(probeIn), max_keywords),
        fallback_error |->
          FallbackKeywordExtraction(probeIn, max_keywords)]
  /\ UNCHANGED <<probeIn, storeVars, extractVars>>

PathsNext == \E k \in MaxKeywordsValues : FallbackBothPaths(k)

InitPaths ==
  /\ StoreUnused
  /\ ExtractUnused
  /\ probeIn \in PieceBodies \cup (Texts \ {None})
  /\ probeOut = NoProbe

SpecPaths == InitPaths /\ [][PathsNext]_vars

(***************************************************************************)
(* Properties of the dedup gate and the store.                             *)
(***************************************************************************)
\* C1: however gated ingests interleave (each saves only after its own check
\* said "no duplicate"), mail_history never holds two rows with the same
\* content_hash.  Stated for rows of different message_id, the rows that
\* stay possible when the table keeps message_id unique.
NoTwoRowsShareContentHash ==
  \A i, j \in 1..Len(mail_history) :
    mail_history[i].message_id # mail_history[j].message_id
      => mail_history[i].content_hash # mail_history[j].content_hash

\* caller p's check_duplicate_by_content_hash call happens in this step
CheckStep(p) == client[p].pc = "idle" /\ client'[p].pc = "checked"

\* C4: once save_mail_with_hash has completed for a content, every later
\* check_duplicate_by_content_hash of that content returns is_duplicate =
\* True, under every message id and whatever checks and saves came between.
SavedContentIsDuplicate ==
  [][\A p \in Clients :
       CheckStep(p) /\ client'[p].content \in saved_contents
         => /\ client'[p].check.status = "returned"
            /\ client'[p].check.dup]_vars

\* a check answered "duplicate" for a saved content under a message id that
\* no row carries
DuplicateUnderNewId ==
  \E p \in Clients :
    /\ client[p].pc = "checked"
    /\ client[p].check.status = "returned"
    /\ client[p].check.dup
    /\ client[p].content \in saved_contents
    /\ \A i \in 1..Len(mail_history) :
         mail_history[i].message_id # client[p].mail_id

AnsweredFrom(p, i) ==
  LET payload == mail_history[i].keywords
      check == client'[p].check
  IN  /\ payload.kind \in {"null", "empty", "undecodable", "not_text"}
           => check.is_list /\ check.keywords = <<>>
      /\ payload.kind = "list"
           => check.is_list /\ check.keywords = payload.items

FailedSaveLeavesNoRow ==
  /\ [](\A i \in 1..Len(mail_history) :
          \E c \in saved_contents :
            mail_history[i].content_hash = GenerateContentHash(c))
  /\ [][\A p \in Clients :
         client[p].pc # "save_failed" /\ client'[p].pc = "save_failed"
           => mail_history' = mail_history]_vars

\* on a table that has the column and no rows a save has failed, and a check
\* of the same message id and content has answered "no duplicate"
CheckAfterFailedSaveMisses ==
  \E p, q \in Clients :
    /\ hash_column
    /\ mail_history = <<>>
    /\ client[p].pc = "save_failed"
    /\ client[q].pc = "checked"
    /\ client[q].mail_id = client[p].mail_id
    /\ client[q].content = client[p].content
    /\ client[q].check.status = "returned"
    /\ ~client[q].check.dup

\* the schema step of save_mail_with_hash never ends the call: from the
\* ALTER TABLE every save goes on to its INSERT
SchemaStepGoesOn ==
  \A p \in Clients :
    client[p].pc = "alter" /\ client'[p].pc # "alter"
      => client'[p].pc = "insert"

SaveSucceeds(p) == client[p].pc = "insert" /\ client'[p].pc = "saved"

\* C27: every save_mail_with_hash that succeeds adds exactly one row to
\* mail_history, with the message id it was given and the content_hash
\* computed from its content argument; no step of a check or a save changes
\* or removes a row that is in the table, rows are added by succeeding
\* saves only, and a check leaves mail_history, accounts and the schema as
\* they were.
SaveAddsOneRowAndKeepsTheRest ==
  [][/\ Len(mail_history') >= Len(mail_history)
     /\ SubSeq(mail_history', 1, Len(mail_history)) = mail_history
     /\ \A p \in Clients :
          SaveSucceeds(p)
            => /\ Len(mail_history') = Len(mail_history) + 1
               /\ mail_history'[Len(mail_history')].message_id =
                    client[p].mail_id
               /\ mail_history'[Len(mail_history')].content_hash =
                    GenerateContentHash(client[p].content)
     /\ mail_history' # mail_history
          => \E p \in Clients : SaveSucceeds(p)
     /\ \A p \in Clients :
          client[p].pc = "idle" /\ client'[p].pc = "checked"
            => <<mail_history', accounts', hash_column'>> =
                 <<mail_history, accounts, hash_column>>]_vars

\* a save has added its row behind a row that was in the table
SecondRowAdded ==
  \E p \in Clients :
    /\ client[p].pc = "saved"
    /\ Len(mail_history) = 2
    /\ mail_history[2].message_id = client[p].mail_id
    /\ mail_history[2].content_hash = GenerateContentHash(client[p].content)

\* C18: save_mail_with_hash never fails because the user_id it is given is
\* unknown: with no accounts row for the user_id it inserts one placeholder
\* and writes the mail row under its id, with a row it inserts none and
\* uses that row's id, and after any sequence of saves accounts holds at most
\* one row for each user_id.
OnePlaceholderPerReference ==
  /\ [](\A i, j \in 1..Len(accounts) :
          accounts[i].user_id = accounts[j].user_id => i = j)
  /\ [][\A p \in Clients :
         LET ref == client[p].account
             known == {i \in 1..Len(accounts) :
                         accounts[i].user_id = ref.user_id}
         IN  /\ client[p].pc = "acct_lookup" /\ ~ref.is_int
                  /\ client'[p].pc # "acct_lookup"
                  => /\ accounts' = accounts
                     /\ client'[p].pc =
                          (IF known = {} THEN "acct_insert" ELSE "alter")
                     /\ known # {}
                          => \E i \in known :
                               client'[p].actual_account_id = accounts[i].id
             /\ client[p].pc = "acct_insert"
                  /\ client'[p].pc = "acct_refetch"
                  => /\ Len(accounts') = Len(accounts) + 1
                     /\ accounts'[Len(accounts')].user_id = ref.user_id
             /\ client[p].pc = "insert" /\ client'[p].pc = "saved"
                  /\ ~ref.is_int
                  => \E i \in known :
                       mail_history'[Len(mail_history')].account_id =
                         accounts[i].id]_vars

\* a save created the placeholder of a user_id and a later save of the same
\* user_id has written its row under that one account
SecondSaveReusedPlaceholder ==
  /\ Len(accounts) = 1
  /\ Len(mail_history) = 2
  /\ \A i \in 1..2 : mail_history[i].account_id = accounts[1].id
  /\ accounts[1].user_id = "u1"
  /\ \E p \in Clients : client[p].pc = "saved"

(***************************************************************************)
(* Properties of extract_keywords.                                         *)
(***************************************************************************)
\* C2: extract_keywords never raises to its caller, whatever body it is
\* given and whichever step fails, the fallback run by the except branch
\* included.
ExtractNeverRaises == \A r \in Requests : req[r].pc # "raised"

ShortTextShortCircuits ==
  \A r \in Requests :
    req[r].pc \in {"done", "raised"}
    /\ req[r].text # NonStr
    /\ Len(Cleaned(req[r].text)) < MinTextLen
      => /\ req[r].pc = "done"
         /\ req[r].response.keywords = <<>>
         /\ req[r].response.method = "empty_text"
         /\ req[r].remote_calls = 0
         /\ req[r].fallback_runs = 0

\* with an API key set, a body that is long as sent and short once cleaned
\* came back as empty_text
ShortAfterCleaningWithKey ==
  \E r \in Requests :
    /\ req[r].pc = "done"
    /\ api_key # NoKey
    /\ req[r].text # None
    /\ Len(req[r].text) >= MinTextLen
    /\ Len(req[r].clean_text) \in 1..(MinTextLen - 1)
    /\ req[r].response.method = "empty_text"

\* the remote attempt failed: the POST raised or timed out, a statement
\* ahead of it raised, the status is not 200, the body is no JSON, or the
\* completion is missing or empty
RemoteFailed(outcome) ==
  \/ outcome.kind \in {"client_error", "timeout", "raised_before_request"}
  \/ /\ outcome.kind = "response"
     /\ \/ outcome.status # 200
        \/ ~outcome.json
        \/ outcome.choices # "content"
        \/ outcome.content = None
        \/ \A i \in 1..Len(outcome.content) :
             outcome.content[i] \in Whitespace

\* C8: with an API key and a cleaned body of 10 characters or more, every
\* failed remote attempt ends in a returned result whose method is
\* "fallback" or "fallback_error" and whose keywords are what
\* _fallback_keyword_extraction gives (for the cleaned body under
\* "fallback", for the body as sent under "fallback_error"); it is never
\* the remote method and never an exception.
FailedRemoteFallsBack ==
  \A r \in Requests :
    req[r].pc \in {"done", "raised"} /\ RemoteFailed(req[r].outcome)
      => /\ req[r].pc = "done"
         /\ req[r].response.method \in {"fallback", "fallback_error"}
         /\ req[r].response.method = "fallback"
              => req[r].response.keywords =
                   Fallback(req[r].clean_text, req[r].max_keywords)
         /\ req[r].response.method = "fallback_error"
              => req[r].response.keywords =
                   Fallback(req[r].text, req[r].max_keywords)

\* an answer with status 500 that carried a completion ended in the fallback
\* with keywords
ErrorStatusFellBack ==
  \E r \in Requests :
    /\ req[r].pc = "done"
    /\ req[r].outcome.kind = "response"
    /\ req[r].outcome.status # 200
    /\ req[r].outcome.choices = "content"
    /\ req[r].response.method = "fallback"
    /\ req[r].response.keywords # <<>>

\* the remote attempt brought at least one parsed keyword with status 200
RemoteSucceeded(call) ==
  /\ call.outcome.kind = "response"
  /\ call.outcome.status = 200
  /\ call.outcome.json
  /\ call.outcome.choices = "content"
  /\ call.outcome.content # None
  /\ Len(Parsed(call.outcome.content)) >= 1

\* C9 as the specification words it: the method of every result is one of
\* empty_text, remote, fallback, fallback_error, and a successful remote
\* extraction (status 200, at least one parsed keyword) has method "remote".
MethodIsRemoteOrLocal ==
  \A r \in Requests :
    req[r].pc = "done"
      => /\ req[r].response.method \in
              {"empty_text", "remote", "fallback", "fallback_error"}
         /\ RemoteSucceeded(req[r]) => req[r].response.method = "remote"

\* C9, amended: the method of every result is one of empty_text, openrouter,
\* fallback, fallback_error, and a successful remote extraction (status 200,
\* at least one parsed keyword, max_keywords at least 1) has method
\* "openrouter".
MethodIsOpenrouterOrLocal ==
  \A r \in Requests :
    req[r].pc = "done"
      => /\ req[r].response.method \in
              {"empty_text", "openrouter", "fallback", "fallback_error"}
         /\ RemoteSucceeded(req[r]) /\ req[r].max_keywords >= 1
              => req[r].response.method = "openrouter"

\* a successful remote extraction has returned
RemoteResultReturned ==
  \E r \in Requests :
    /\ req[r].pc = "done"
    /\ RemoteSucceeded(req[r])
    /\ req[r].max_keywords >= 1
    /\ req[r].response.method = "openrouter"
    /\ req[r].response.keywords # <<>>

\* C13: every extract_keywords call returns a result in the end, given that
\* the awaited POST is answered or ended by its 30 s timeout; a call whose
\* request timed out returns with the fallback result for its cleaned body.
ExtractEventuallyReturns ==
  /\ \A r \in Requests : (req[r].pc = "awaiting") ~> (req[r].pc = "done")
  /\ [](\A r \in Requests :
          req[r].pc = "done" /\ req[r].outcome.kind = "timeout"
            => /\ req[r].response.method = "fallback"
               /\ req[r].response.keywords =
                    Fallback(req[r].clean_text, req[r].max_keywords))

\* a call whose request timed out has returned fallback keywords
TimedOutCallReturned ==
  \E r \in Requests :
    /\ req[r].pc = "done"
    /\ req[r].remote_calls = 1
    /\ req[r].outcome.kind = "timeout"
    /\ req[r].response.method = "fallback"
    /\ req[r].response.keywords # <<>>

(***************************************************************************)
(* Properties of _fallback_keyword_extraction.                             *)
(***************************************************************************)
\* the first place of w in the list ws
FirstIn(ws, w) ==
  CHOOSE i \in 1..Len(ws) : ws[i] = w /\ \A j \in 1..(i - 1) : ws[j] # w

\* the first place in the text at which w stands
FirstInText(text, w) ==
  CHOOSE i \in 1..Len(text) :
    /\ SubSeq(text, i, i + Len(w) - 1) = w
    /\ \A j \in 1..(i - 1) : SubSeq(text, j, j + Len(w) - 1) # w

\* the tokens of the list ws
Tokens(ws) == {ws[i] : i \in 1..Len(ws)}

\* out is the first n tokens of ws by falling count, none twice, where of
\* two tokens of equal count the one with the smaller place goes first
TopByCount(out, ws, n, place) ==
  LET tokens == Tokens(ws)
      kept == {out[i] : i \in 1..Len(out)}
      Before(a, b) ==
        \/ CountOf(ws, a) > CountOf(ws, b)
        \/ CountOf(ws, a) = CountOf(ws, b) /\ place[a] < place[b]
  IN  /\ kept \subseteq tokens
      /\ Len(out) = (IF n < Cardinality(tokens) THEN n
                     ELSE Cardinality(tokens))
      /\ \A i, j \in 1..Len(out) : i < j => Before(out[i], out[j])
      /\ \A a \in kept, b \in tokens \ kept : Before(a, b)

\* C16 as the specification words it: _fallback_keyword_extraction returns
\* the max_keywords most frequent tokens of the pooled classes by falling
\* frequency, and of two tokens of equal frequency the one whose first
\* occurrence in the text comes earlier goes first.
TiesInTextOrder ==
  probeOut.op = "fallback"
    => TopByCount(probeOut.keywords, AllWords(probeIn),
                  probeOut.max_keywords,
                  [w \in Tokens(AllWords(probeIn)) |->
                     FirstInText(probeIn, w)])

\* C16, amended: _fallback_keyword_extraction returns the max_keywords most
\* frequent tokens of the pooled classes by falling frequency, and of two
\* tokens of equal frequency the one whose first occurrence in the pooled
\* list (the Hangul words of the text, then its English words, then its
\* identifiers) comes earlier goes first.
TiesInPoolOrder ==
  probeOut.op = "fallback"
    => TopByCount(probeOut.keywords, AllWords(probeIn),
                  probeOut.max_keywords,
                  [w \in Tokens(AllWords(probeIn)) |->
                     FirstIn(AllWords(probeIn), w)])

\* two tokens of equal count were returned, the Hangul word ahead of the
\* English word that stands before it in the text
HangulAheadOfEarlierWord ==
  /\ probeOut.op = "fallback"
  /\ \E i, j \in 1..Len(probeOut.keywords) :
       LET a == probeOut.keywords[i]
           b == probeOut.keywords[j]
       IN  /\ i < j
           /\ a[1] \in Hangul
           /\ b[1] \in Letter
           /\ CountOf(AllWords(probeIn), a) = CountOf(AllWords(probeIn), b)
           /\ FirstInText(probeIn, b) < FirstInText(probeIn, a)

(***************************************************************************)
(* Properties of _parse_keywords.                                          *)
(***************************************************************************)
\* C14: _parse_keywords gives [선박, 안전, 점검] for "1. 선박\n2. 안전\n3. 점검",
\* [apple, banana, cherry] for "apple, banana, cherry", [alpha, beta, gamma]
\* for "alpha\nbeta\ngamma", [one, two, three] for "one two three" and []
\* for "a, ".
FiveAnswersParsed ==
  probeOut.op = "parse"
    => /\ probeIn = AnswerNumbered => probeOut.keywords = KeywordsNumbered
       /\ probeIn = AnswerCommas => probeOut.keywords = KeywordsCommas
       /\ probeIn = AnswerLines => probeOut.keywords = KeywordsLines
       /\ probeIn = AnswerWords => probeOut.keywords = KeywordsWords
       /\ probeIn = ContentNoKeyword => probeOut.keywords = <<>>

\* the numbered answer was parsed to its three keywords
NumberedAnswerParsed ==
  /\ probeOut.op = "parse"
  /\ probeIn = AnswerNumbered
  /\ probeOut.format = "numbered"
  /\ probeOut.keywords = KeywordsNumbered

\* the content has a line of the form "<digits>. <text>"
HasNumberedLine(content) ==
  LET lines == StripAll(SplitOn(content, "\n"))
  IN  \E i \in 1..Len(lines) : NumberedKeyword(lines[i]) # <<>>

\* the format the four rules give in their order when the first rule asks
\* for a numbered line
FormatByLines(content) ==
  IF HasNumberedLine(content) THEN "numbered"
  ELSE IF \E i \in 1..Len(content) : content[i] = "," THEN "comma"
  ELSE IF \E i \in 1..Len(content) : content[i] = "\n" THEN "newline"
  ELSE "whitespace"

\* the keywords of a content read in one format
KeywordsAs(fmt, content) ==
  CleanKeywords(
    CASE fmt = "numbered" -> NumberedKeywords(content)
      [] fmt = "comma" -> StripAll(SplitOn(content, ","))
      [] fmt = "newline" -> StripAll(SplitOn(content, "\n"))
      [] fmt = "whitespace" -> SplitWhitespace(content))

\* C15: _parse_keywords reads a content in exactly one of the four formats,
\* in the order numbered, comma, newline, whitespace, and in the numbered one
\* only when the content has a line of the form "<digits>. <text>": a
\* content with commas and no such line is split on its commas, also when
\* one item holds a digit followed by a dot.
NumberedOnlyWithNumberedLine ==
  probeOut.op = "parse"
    => probeOut.keywords = KeywordsAs(FormatByLines(probeIn), probeIn)

\* the result was not made from the remote answer
LocalMethods == {"empty_text", "fallback", "fallback_error"}

\* the four fields of token_info are there and none is below 0
TokenFieldsPresent(token_info) ==
  /\ ~token_info.empty
  /\ token_info.prompt_tokens >= 0
  /\ token_info.completion_tokens >= 0
  /\ token_info.total_tokens >= 0
  /\ token_info.cost_usd >= 0

CallSteps ==
  {<<"idle", "done">>, <<"idle", "awaiting">>, <<"awaiting", "done">>,
   <<"done", "idle">>}

\* C20: every extract_keywords call takes one of four paths: short body ->
\* empty_text; remote attempt -> remote result; remote attempt -> failure
\* (no keywords from the one request, or an exception ahead of it) ->
\* fallback; no API key -> fallback.  It sends at most one request and never
\* a second one after a failure, none without an API key, and it never runs
\* the fallback once the remote answer has given keywords.
OnePathPerCall ==
  /\ [](\A r \in Requests :
          LET call == req[r]
              method == call.response.method
          IN  /\ call.remote_calls <= 1
              /\ call.fallback_runs <= 1
              /\ api_key = NoKey => call.remote_calls = 0
              /\ call.pc = "awaiting"
                   => call.remote_calls = 1 /\ call.fallback_runs = 0
              /\ call.pc = "done"
                   => \/ /\ method = "empty_text"
                         /\ TooShort(call.clean_text)
                         /\ call.remote_calls = 0
                         /\ call.fallback_runs = 0
                      \/ /\ method = "openrouter"
                         /\ api_key # NoKey
                         /\ call.remote_calls = 1
                         /\ call.response.keywords =
                              ApiKeywords(call.outcome, call.max_keywords)
                         /\ call.response.keywords # <<>>
                         /\ call.fallback_runs = 0
                      \/ /\ method = "fallback"
                         /\ api_key # NoKey
                         /\ call.remote_calls = 1
                         /\ ApiKeywords(call.outcome, call.max_keywords) = <<>>
                         /\ call.fallback_runs = 1
                      \/ /\ method = "fallback_error"
                         /\ api_key # NoKey
                         /\ call.outcome = RaisedOutcome
                         /\ call.remote_calls = 0
                         /\ call.fallback_runs = 1
                      \/ /\ method = "fallback"
                         /\ api_key = NoKey
                         /\ call.remote_calls = 0
                         /\ call.fallback_runs = 1)
  /\ [][\A r \in Requests :
         \/ req'[r] = req[r]
         \/ <<req[r].pc, req'[r].pc>> \in CallSteps]_vars

\* a call with an API key sent one request, saw it fail and returned the
\* fallback result
FailedAttemptThenFallback ==
  \E r \in Requests :
    /\ req[r].pc = "done"
    /\ api_key # NoKey
    /\ req[r].remote_calls = 1
    /\ req[r].outcome.kind \in {"client_error", "timeout", "response"}
    /\ req[r].fallback_runs = 1
    /\ req[r].response.method = "fallback"

\* the answer has status 200 and a completion that the parser was run on
ParserRan(outcome) ==
  /\ outcome.kind = "response"
  /\ outcome.status = OkStatus
  /\ outcome.json
  /\ outcome.choices = "content"
  /\ ContentPresent(outcome.content)

\* C21: a result with the remote method (the code's tag is "openrouter")
\* always has at least one keyword: when _parse_keywords gives no keyword, or
\* the parsed list cut to max_keywords is empty, the call goes on to
\* _fallback_keyword_extraction and returns its result.
RemoteResultHasKeywords ==
  \A r \in Requests :
    req[r].pc = "done"
      => /\ req[r].response.method \in {"remote", "openrouter"}
              => Len(req[r].response.keywords) >= 1
         /\ ParserRan(req[r].outcome)
              /\ SliceTo(Parsed(req[r].outcome.content),
                         req[r].max_keywords) = <<>>
              => /\ req[r].response.method = "fallback"
                 /\ req[r].fallback_runs = 1
                 /\ req[r].response.keywords =
                      Fallback(req[r].clean_text, req[r].max_keywords)

\* an answer whose parsed keywords were all cut away by max_keywords = 0
\* ended in the fallback
CutToNothingFellBack ==
  \E r \in Requests :
    /\ req[r].pc = "done"
    /\ ParserRan(req[r].outcome)
    /\ Len(Parsed(req[r].outcome.content)) >= 1
    /\ req[r].max_keywords = 0
    /\ req[r].response.method = "fallback"

\* the candidates of a content read in one format, before the clean-up
Candidates(fmt, content) ==
  CASE fmt = "numbered" -> NumberedKeywords(content)
    [] fmt = "comma" -> StripAll(SplitOn(content, ","))
    [] fmt = "newline" -> StripAll(SplitOn(content, "\n"))
    [] fmt = "whitespace" -> SplitWhitespace(content)

\* a candidate from its first word character to its last one
Core(kw) ==
  LET at == {i \in 1..Len(kw) : kw[i] \in WordChar}
  IN  IF at = {} THEN <<>>
      ELSE SubSeq(kw, CHOOSE i \in at : \A j \in at : i <= j,
                      CHOOSE i \in at : \A j \in at : j <= i)

\* C24: whichever of the four formats was applied, every keyword
\* _parse_keywords returns has two characters or more and begins and ends
\* with a word character (\w or Hangul), and the output is the candidates
\* whose core has two characters or more, each cut to its core, in the
\* candidates' order, repeated items and case variants all kept.
ParsedKeywordsCleanAndInOrder ==
  probeOut.op = "parse"
    => LET out == probeOut.keywords
           cands == Candidates(probeOut.format, probeIn)
           kept == {j \in 1..Len(cands) : Len(Core(cands[j])) >= 2}
           nth(i) == CHOOSE j \in kept :
                       Cardinality({k \in kept : k < j}) = i - 1
       IN  /\ probeOut.format \in
                {"numbered", "comma", "newline", "whitespace"}
           /\ \A i \in 1..Len(out) :
                /\ Len(out[i]) >= 2
                /\ out[i][1] \in WordChar
                /\ out[i][Len(out[i])] \in WordChar
           /\ Len(out) = Cardinality(kept)
           /\ \A i \in 1..Len(out) : out[i] = Core(cands[nth(i)])

\* "ab, AB, ab, -ab-, a" was parsed: ab three times and AB once, in place
RepeatsAndCaseVariantsKept ==
  /\ probeOut.op = "parse"
  /\ probeIn = AnswerRepeats
  /\ probeOut.keywords =
       <<<<"a", "b">>, <<"A", "B">>, <<"a", "b">>, <<"a", "b">>>>

\* C25: for one body and one max_keywords the keywords of the
\* fallback_error result (the fallback run on the body as given, which it
\* cleans once) equal the keywords of the fallback result (the fallback run
\* on the cleaned body, which it cleans a second time).
FallbackPathsAgree ==
  probeOut.op = "paths" => probeOut.fallback_error = probeOut.fallback

\* a body whose cleaned text changes when cleaned again gave the same
\* keywords, and at least one, on both paths
TwiceCleanedBodyAgreed ==
  /\ probeOut.op = "paths"
  /\ CleanText(probeOut.clean_text) # probeOut.clean_text
  /\ probeOut.fallback # <<>>
  /\ probeOut.fallback_error = probeOut.fallback

(***************************************************************************)
(* Properties of the service's network session.                            *)
(***************************************************************************)
\* no session is open other than the one self._session holds
NoSessionLeaked ==
  \A i \in 1..Len(sessions) : sessions[i] => session = i

\* C12: after any sequence of __aenter__, extract_keywords, close and
\* __aexit__ on one service, every session the service created is the one
\* self._session holds or is closed, and right after close or __aexit__ no
\* session the service created is open.
SessionsReleased ==
  /\ []NoSessionLeaked
  /\ [][closer.pc # "closed" /\ closer'.pc = "closed"
         => \A i \in 1..Len(sessions') : ~sessions'[i]]_vars

\* C22: the service makes a session only when it has none or when the one
\* it has was closed, so that extract_keywords calls with no close and no
\* __aexit__ between them make at most one session and share it.
SessionMadeOnlyWhenNeeded ==
  [][Len(sessions') > Len(sessions) => NeedsSession]_vars

\* C23: when close() runs beside extract_keywords calls on one service (an
\* extract may take a session while close waits for the session to close),
\* then with close and every extract over, each extract has returned a
\* result of one of the four methods and no session the service made is
\* open other than the one self._session holds.
CloseBesideExtractsLeavesNoSession ==
  (closer.pc = "idle" /\ \A r \in Requests : req[r].pc # "awaiting")
    => /\ \A r \in Requests :
            /\ req[r].pc # "raised"
            /\ req[r].pc = "done"
                 => req[r].response.method \in
                      {"empty_text", "openrouter", "fallback",
                       "fallback_error"}
       /\ NoSessionLeaked

\* every extract beside a close returns a result
ExtractsBesideCloseReturn ==
  \A r \in Requests :
    /\ req[r].pc # "raised"
    /\ req[r].pc = "done"
         => req[r].response.method \in
              {"empty_text", "openrouter", "fallback", "fallback_error"}

\* extract_keywords calls alone: at most one session is ever made
OneSessionForAllExtracts == Len(sessions) <= 1

(***************************************************************************)
(* Properties of _clean_text.                                              *)
(***************************************************************************)
\* C5: two bodies that differ only by an HTML tag wrapper, by whitespace
\* runs or by line-ending style clean to the same content, so that once the
\* first is ingested the check of the second under a new message id says
\* is_duplicate = True.
VariantIsDuplicate ==
  probeOut.op = "dedup"
    => probeOut.first = probeOut.second /\ probeOut.dups = {TRUE}

\* C6: _clean_text is idempotent: cleaning its own output changes nothing.
CleanTextIdempotent ==
  probeOut.op = "clean" => probeOut.second = probeOut.first

====
